---------------------------- MODULE Spec2Model ----------------------------
(***************************************************************************)
(* Model of the iButton temperature ingestion pipeline                     *)
(* (scripts/ingest_ibutton_csv.py, scripts/utils.py).                      *)
(*                                                                         *)
(* Text is modelled as a sequence of symbols: a symbol is one character    *)
(* (" ", ":", "_", "+", "4", ...) or one word whose inner characters no    *)
(* operation of the program looks at ("Registration", "iButton", ...).     *)
(* Python's None is the one-symbol sequence <<"None">>; no text of the     *)
(* model uses that symbol.                                                 *)
(***************************************************************************)
EXTENDS Integers, Sequences, FiniteSets, TLC

VARIABLES
    pc,            \* main(): "idle" (no invocation), "ingesting" (in the file loop)
    args,          \* argparse namespace of the running invocation
    deployment_metadata, \* the loaded deployment_metadata.json document
    cursor,        \* the file loop's place in sorted(glob('*.csv')): rank of the last name taken
    idx,           \* number of files the loop has taken
    resolved,      \* main()'s locals: deployment_name, site_name, timezone_name, ...
    conn,          \* the store as the open connection sees it (pending writes included)
    disk,          \* the committed store
    taken,         \* number of files taken by the file loops of all invocations
    last,          \* outcome of the last ingest_csv_file call
    probe          \* input and result of the pure function under check

vars == <<pc, args, deployment_metadata, cursor, idx, resolved, conn, disk, taken, last, probe>>

-----------------------------------------------------------------------------
(* Python values *)

None == <<"None">>

\* Python truthiness of an optional string: None and "" are false
Truthy(s) == s /= None /\ s /= <<>>

\* Python's  a or b
Or(a, b) == IF Truthy(a) THEN a ELSE b

-----------------------------------------------------------------------------
(* str methods *)

\* s[i:] of a text, 1-based
Drop(s, n) == SubSeq(s, n + 1, Len(s))

\* str.find: 1-based position of the first occurrence of sep in s, 0 if none
Find(s, sep) ==
    LET hits == {i \in 1..(Len(s) - Len(sep) + 1) : SubSeq(s, i, i + Len(sep) - 1) = sep}
    IN IF hits = {} THEN 0 ELSE CHOOSE i \in hits : \A j \in hits : i <= j

\* sep in s
Contains(s, sep) == Find(s, sep) /= 0

\* s.split(sep)[0]
SplitHead(s, sep) == IF Contains(s, sep) THEN SubSeq(s, 1, Find(s, sep) - 1) ELSE s

\* s.split(sep, 1)[1], for a text that contains sep
SplitTail(s, sep) == Drop(s, Find(s, sep) + Len(sep) - 1)

RECURSIVE LStrip(_)
\* str.lstrip()
LStrip(s) == IF s /= <<>> /\ Head(s) = " " THEN LStrip(Tail(s)) ELSE s

RECURSIVE RStripChar(_, _)
\* str.rstrip(c)
RStripChar(s, c) ==
    IF s /= <<>> /\ s[Len(s)] = c THEN RStripChar(SubSeq(s, 1, Len(s) - 1), c) ELSE s

\* str.strip()
Strip(s) == RStripChar(LStrip(s), " ")

\* lower-case form of one symbol
LowerSym(c) ==
    CASE c \in {"Date", "DATE"} -> "date"
      [] c \in {"Time", "TIME"} -> "time"
      [] c \in {"Registration", "REGISTRATION"} -> "registration"
      [] c \in {"Number", "NUMBER"} -> "number"
      [] c \in {"iButton", "IBUTTON", "Ibutton"} -> "ibutton"
      [] OTHER -> c

\* str.lower()
Lower(s) == [i \in 1..Len(s) |-> LowerSym(s[i])]

-----------------------------------------------------------------------------
(* ingest_csv_file: label from the filename *)

\* Path(csv_path).stem of a name whose only extension is its last symbol
PathStem(name) ==
    IF Len(name) > 1 /\ name[Len(name)] = ".csv" THEN SubSeq(name, 1, Len(name) - 1) ELSE name

\* a label derivation that folds the case of the stem before looking for the marker
LabelAnyCase(filename) ==
    IF Contains(Lower(filename), <<"_", "ibutton", "_">>)
    THEN SubSeq(filename, 1, Find(Lower(filename), <<"_", "ibutton", "_">>) - 1)
    ELSE None

\* label = None; if '_iButton_' in filename or '_ibutton_' in filename: label = ...
LabelFromStem(filename) ==
    IF Contains(filename, <<"_", "iButton", "_">>) \/ Contains(filename, <<"_", "ibutton", "_">>)
    THEN SplitHead(SplitHead(filename, <<"_", "iButton", "_">>), <<"_", "ibutton", "_">>)
    ELSE None

-----------------------------------------------------------------------------
(* parse_ibutton_header *)

\* row[0].strip().lower() in ['date/time', 'date time']
IsDataHeader(row) ==
    Lower(Strip(row[1])) \in {<<"date", "/", "time">>, <<"date", " ", "time">>}

\* metadata[key] = value
DictSet(d, k, v) == [x \in (DOMAIN d) \cup {k} |-> IF x = k THEN v ELSE d[x]]

\* dict.get(k), None when the key is absent
DictGet(d, k) == IF k \in DOMAIN d THEN d[k] ELSE None

\* the empty dict
EmptyDict == [x \in {} |-> None]

\* one metadata row of the header block (the body of the loop after the boundary test)
HeaderRow(metadata, row) ==
    IF Len(row) >= 2
    THEN DictSet(metadata, RStripChar(Strip(row[1]), ":"), Strip(row[2]))
    ELSE IF Len(row) = 1 /\ Contains(row[1], <<":">>)
         THEN DictSet(metadata, Strip(SplitHead(row[1], <<":">>)),
                      Strip(SplitTail(row[1], <<":">>)))
         ELSE metadata

RECURSIVE ScanHeaderNoBreak(_, _, _)
\* the loop without its break: the last boundary line wins and later lines are metadata
ScanHeaderNoBreak(rows, i, metadata) ==
    IF i > Len(rows) THEN [metadata |-> metadata, data_start_line |-> 0]
    ELSE IF rows[i] = <<>> THEN ScanHeaderNoBreak(rows, i + 1, metadata)
    ELSE IF IsDataHeader(rows[i])
         THEN LET rest == ScanHeaderNoBreak(rows, i + 1, metadata)
              IN IF rest.data_start_line = 0
                 THEN [metadata |-> rest.metadata, data_start_line |-> i]
                 ELSE rest
    ELSE ScanHeaderNoBreak(rows, i + 1, HeaderRow(metadata, rows[i]))

RECURSIVE ScanHeader(_, _, _)
\* the for loop over enumerate(reader, start=1), from row i with the metadata so far
ScanHeader(rows, i, metadata) ==
    IF i > Len(rows) THEN [metadata |-> metadata, data_start_line |-> 0]
    ELSE IF rows[i] = <<>> THEN ScanHeader(rows, i + 1, metadata)
    ELSE IF IsDataHeader(rows[i]) THEN [metadata |-> metadata, data_start_line |-> i]
    ELSE ScanHeader(rows, i + 1, HeaderRow(metadata, rows[i]))

\* parse_ibutton_header: ok = FALSE stands for the ValueError raised
ParseHeader(rows) ==
    LET r == ScanHeader(rows, 1, EmptyDict)
    IN IF r.data_start_line = 0
       THEN [ok |-> FALSE, metadata |-> EmptyDict, data_start_line |-> 0]
       ELSE [ok |-> TRUE, metadata |-> r.metadata, data_start_line |-> r.data_start_line]

-----------------------------------------------------------------------------
(* utils.local_to_utc: datetime.strptime *)

\* the calendar dates the model's timestamps use: spellings and days since 1970-01-01
Dates ==
    { [iso |-> "2024-03-10", mdy |-> "03/10/24", mdY |-> "03/10/2024", days |-> 19792],
      [iso |-> "2024-03-31", mdy |-> "03/31/24", mdY |-> "03/31/2024", days |-> 19813],
      [iso |-> "2024-04-07", mdy |-> "04/07/24", mdY |-> "04/07/2024", days |-> 19820],
      [iso |-> "2024-10-06", mdy |-> "10/06/24", mdY |-> "10/06/2024", days |-> 20002],
      [iso |-> "2024-10-27", mdy |-> "10/27/24", mdY |-> "10/27/2024", days |-> 20023],
      [iso |-> "2024-11-03", mdy |-> "11/03/24", mdY |-> "11/03/2024", days |-> 20030],
      [iso |-> "2024-12-31", mdy |-> "12/31/24", mdY |-> "12/31/2024", days |-> 20088] }

\* the clock readings the model's timestamps use
Clocks ==
    { [text |-> "00:30:00", h |-> 0, m |-> 30, s |-> 0],
      [text |-> "01:00:00", h |-> 1, m |-> 0, s |-> 0],
      [text |-> "01:30:00", h |-> 1, m |-> 30, s |-> 0],
      [text |-> "01:59:59", h |-> 1, m |-> 59, s |-> 59],
      [text |-> "02:00:00", h |-> 2, m |-> 0, s |-> 0],
      [text |-> "02:30:00", h |-> 2, m |-> 30, s |-> 0],
      [text |-> "03:00:00", h |-> 3, m |-> 0, s |-> 0],
      [text |-> "12:30:00", h |-> 12, m |-> 30, s |-> 0],
      [text |-> "13:30:00", h |-> 13, m |-> 30, s |-> 0] }

\* a naive datetime, as the seconds from 1970-01-01 00:00:00 to it
Naive(days, h, m, s) == days * 86400 + h * 3600 + m * 60 + s

\* strptime raising ValueError
NoMatch == [ok |-> FALSE, dt |-> 0]

\* %I:%M:%S %p : hour 1..12, 12 AM is hour 0 and 12 PM is hour 12
Clock12(days, clock, ampm) ==
    IF \E c \in Clocks : c.text = clock /\ c.h \in 1..12
    THEN LET c == CHOOSE c \in Clocks : c.text = clock
         IN [ok |-> TRUE,
             dt |-> Naive(days, (c.h % 12) + (IF ampm = "PM" THEN 12 ELSE 0), c.m, c.s)]
    ELSE NoMatch

\* %H:%M:%S
Clock24(days, clock) ==
    IF \E c \in Clocks : c.text = clock
    THEN LET c == CHOOSE c \in Clocks : c.text = clock
         IN [ok |-> TRUE, dt |-> Naive(days, c.h, c.m, c.s)]
    ELSE NoMatch

\* formats = [...] of local_to_utc, in order
Formats == <<"%m/%d/%y %I:%M:%S %p", "%m/%d/%Y %I:%M:%S %p", "%Y-%m-%d %H:%M:%S", "%m/%d/%y %H:%M:%S">>

\* datetime.strptime(s, fmt): the whole text must match the format
Strptime(s, fmt) ==
    LET twelve == Len(s) = 5 /\ s[2] = " " /\ s[4] = " " /\ s[5] \in {"AM", "PM"}
        plain == Len(s) = 3 /\ s[2] = " "
    IN CASE fmt = "%m/%d/%y %I:%M:%S %p" /\ twelve /\ (\E d \in Dates : d.mdy = s[1]) ->
              Clock12((CHOOSE d \in Dates : d.mdy = s[1]).days, s[3], s[5])
         [] fmt = "%m/%d/%Y %I:%M:%S %p" /\ twelve /\ (\E d \in Dates : d.mdY = s[1]) ->
              Clock12((CHOOSE d \in Dates : d.mdY = s[1]).days, s[3], s[5])
         [] fmt = "%Y-%m-%d %H:%M:%S" /\ plain /\ (\E d \in Dates : d.iso = s[1]) ->
              Clock24((CHOOSE d \in Dates : d.iso = s[1]).days, s[3])
         [] fmt = "%m/%d/%y %H:%M:%S" /\ plain /\ (\E d \in Dates : d.mdy = s[1]) ->
              Clock24((CHOOSE d \in Dates : d.mdy = s[1]).days, s[3])
         [] OTHER -> NoMatch

RECURSIVE TryFormats(_, _)
\* for fmt in formats: try: dt = strptime(...); break   (from format i on)
TryFormats(s, i) ==
    IF i > Len(Formats) THEN NoMatch
    ELSE IF Strptime(s, Formats[i]).ok THEN Strptime(s, Formats[i])
    ELSE TryFormats(s, i + 1)

-----------------------------------------------------------------------------
(* utils.local_to_utc: zoneinfo.ZoneInfo *)

\* The zones of the model, as the tz database gives them for 2024: the UTC
\* offset in force before the year's first transition, and each transition's
\* UTC instant with the offset in force from it on (seconds east of UTC).
ZoneTable ==
    [ x \in {"America/New_York", "Europe/London", "Australia/Lord_Howe", "UTC"} |->
        CASE x = "America/New_York" ->
               [before |-> -18000,
                trans |-> << [utc |-> 1710054000, off |-> -14400],
                             [utc |-> 1730613600, off |-> -18000] >>]
          [] x = "Europe/London" ->
               [before |-> 0,
                trans |-> << [utc |-> 1711846800, off |-> 3600],
                             [utc |-> 1729990800, off |-> 0] >>]
          [] x = "Australia/Lord_Howe" ->
               [before |-> 39600,
                trans |-> << [utc |-> 1712415600, off |-> 37800],
                             [utc |-> 1728142200, off |-> 39600] >>]
          [] OTHER -> [before |-> 0, trans |-> << >>] ]

ZoneNames == DOMAIN ZoneTable

\* ZoneInfo(timezone_name)
ZoneInfo(timezone_name) == ZoneTable[timezone_name[1]]

\* the offset in force just before transition i of a zone
OffsetBefore(z, i) == IF i = 1 THEN z.before ELSE z.trans[i - 1].off

Max(a, b) == IF a >= b THEN a ELSE b

Min(a, b) == IF a <= b THEN a ELSE b

\* zoneinfo's wall-clock reading of transition i for a datetime with the given fold:
\* fold 0 takes the later of the two wall readings of the instant, fold 1 the earlier
TransWall(z, i, fold) ==
    z.trans[i].utc + (IF fold = 0 THEN Max(OffsetBefore(z, i), z.trans[i].off)
                                  ELSE Min(OffsetBefore(z, i), z.trans[i].off))

\* tz.utcoffset(dt) for the naive reading dt and its fold: the offset of the last
\* transition whose wall reading is not after dt
UtcOffset(timezone_name, dt, fold) ==
    LET z == ZoneInfo(timezone_name)
        passed == {i \in 1..Len(z.trans) : TransWall(z, i, fold) <= dt}
    IN IF passed = {} THEN z.before
       ELSE z.trans[CHOOSE i \in passed : \A j \in passed : j <= i].off

-----------------------------------------------------------------------------
(* utils.local_to_utc *)

\* int() of a text of decimal digits
DigitVal(c) ==
    CASE c = "0" -> 0 [] c = "1" -> 1 [] c = "2" -> 2 [] c = "3" -> 3 [] c = "4" -> 4
      [] c = "5" -> 5 [] c = "6" -> 6 [] c = "7" -> 7 [] c = "8" -> 8 [] c = "9" -> 9

RECURSIVE IntOf(_)
IntOf(s) == IF s = <<>> THEN 0 ELSE IntOf(SubSeq(s, 1, Len(s) - 1)) * 10 + DigitVal(s[Len(s)])

\* the offset parsed with the sign applied to the hours only
OffsetSecondsSignOnHours(fixed_offset) ==
    LET sign == IF fixed_offset[1] = "+" THEN 1 ELSE -1
        rest == Drop(fixed_offset, 1)
    IN sign * IntOf(SplitHead(rest, <<":">>)) * 3600 + IntOf(SplitTail(rest, <<":">>)) * 60

\* sign, hours, minutes of the fixed offset and the timedelta built of them, in seconds
OffsetSeconds(fixed_offset) ==
    LET sign == IF fixed_offset[1] = "+" THEN 1 ELSE -1
        rest == Drop(fixed_offset, 1)
    IN sign * IntOf(SplitHead(rest, <<":">>)) * 3600 + sign * IntOf(SplitTail(rest, <<":">>)) * 60

\* the timezone branch resolving a repeated local time to its first occurrence (fold=0)
LocalToUtcFirstOccurrence(local_time_str, timezone_name, fixed_offset) ==
    LET p == TryFormats(local_time_str, 1)
    IN IF ~p.ok THEN [ok |-> FALSE, utc |-> 0]
       ELSE IF Truthy(fixed_offset)
            THEN [ok |-> TRUE, utc |-> p.dt - OffsetSeconds(fixed_offset)]
            ELSE [ok |-> TRUE, utc |-> p.dt - UtcOffset(timezone_name, p.dt, 0)]

\* local_to_utc(local_time_str, timezone_name, fixed_offset): ok = FALSE is the ValueError;
\* the timezone branch is dt.replace(tzinfo=tz, fold=1).timestamp()
LocalToUtc(local_time_str, timezone_name, fixed_offset) ==
    LET p == TryFormats(local_time_str, 1)
    IN IF ~p.ok THEN [ok |-> FALSE, utc |-> 0]
       ELSE IF Truthy(fixed_offset)
            THEN [ok |-> TRUE, utc |-> p.dt - OffsetSeconds(fixed_offset)]
            ELSE [ok |-> TRUE, utc |-> p.dt - UtcOffset(timezone_name, p.dt, 1)]

-----------------------------------------------------------------------------
(* The store: one sqlite3 connection. db.conn is what the connection reads  *)
(* (its own pending writes included), db.disk what is committed. A table is *)
(* the sequence of its rows; a row's id is its position.                    *)

EmptyStore ==
    [sensors |-> <<>>, deployments |-> <<>>, sensor_deployments |-> <<>>,
     files |-> <<>>, temperature_readings |-> <<>>]

\* conn.commit()
Commit(db) == [conn |-> db.conn, disk |-> db.conn]

\* conn.close(): pending writes are rolled back
Close(db) == [conn |-> db.disk, disk |-> db.disk]

\* fetchone(): the first row of a non-empty result
FirstOf(ids) == CHOOSE i \in ids : \A j \in ids : i <= j

\* the duplicate check answering "not ingested" for every hash
NeverIngested(db, sha256) == FALSE

\* utils.file_already_ingested: SELECT COUNT(*) FROM files WHERE sha256 = ?  > 0
FileAlreadyIngested(db, sha256) ==
    LET Match(r) == r.sha256 = sha256
    IN Cardinality({i \in DOMAIN db.conn.files : Match(db.conn.files[i])}) > 0

-----------------------------------------------------------------------------
(* get_or_create_sensor *)

RegistrationKeys ==
    << <<"1-Wire/iButton", " ", "Registration", " ", "Number">>,
       <<"Registration", " ", "Number">>,
       <<"Registration">> >>

PartKeys ==
    << <<"1-Wire/iButton", " ", "Part", " ", "Number">>,
       <<"Part", " ", "Number">>,
       <<"Part">> >>

\* metadata.get(k1) or metadata.get(k2) or metadata.get(k3) or ''
FirstOfKeys(metadata, keys) ==
    Or(DictGet(metadata, keys[1]),
       Or(DictGet(metadata, keys[2]), Or(DictGet(metadata, keys[3]), <<>>)))

\* the existing-sensor branch writing the file's label whenever it has one
SensorLabelUpdateAlways(label, existing_label) == Truthy(label)

\* if label and not existing_label
SensorLabelUpdate(label, existing_label) == Truthy(label) /\ ~Truthy(existing_label)

\* get_or_create_sensor without its check of the registration number
GetOrCreateSensorNoCheck(db, metadata, label) ==
    LET part_number == FirstOfKeys(metadata, PartKeys)
        registration_number == FirstOfKeys(metadata, RegistrationKeys)
        Match(r) == r.registration_number = registration_number
        found == {i \in DOMAIN db.conn.sensors : Match(db.conn.sensors[i])}
    IN IF found /= {}
       THEN [ok |-> TRUE, sensor_id |-> FirstOf(found), db |-> db]
       ELSE [ok |-> TRUE, sensor_id |-> Len(db.conn.sensors) + 1,
             db |-> Commit([db EXCEPT !.conn.sensors = Append(@,
                       [sensor_type |-> "ibutton_ds1925", part_number |-> part_number,
                        registration_number |-> registration_number, label |-> label])])]

\* get_or_create_sensor inserting a row without looking the registration number up
GetOrCreateSensorAlwaysInsert(db, metadata, label) ==
    LET part_number == FirstOfKeys(metadata, PartKeys)
        registration_number == FirstOfKeys(metadata, RegistrationKeys)
    IN IF ~Truthy(registration_number) THEN [ok |-> FALSE, db |-> db, sensor_id |-> 0]
       ELSE [ok |-> TRUE, sensor_id |-> Len(db.conn.sensors) + 1,
             db |-> Commit([db EXCEPT !.conn.sensors = Append(@,
                       [sensor_type |-> "ibutton_ds1925", part_number |-> part_number,
                        registration_number |-> registration_number, label |-> label])])]

\* get_or_create_sensor: ok = FALSE is the ValueError for a missing registration number
GetOrCreateSensor(db, metadata, label) ==
    LET part_number == FirstOfKeys(metadata, PartKeys)
        registration_number == FirstOfKeys(metadata, RegistrationKeys)
        Match(r) == r.registration_number = registration_number
        found == {i \in DOMAIN db.conn.sensors : Match(db.conn.sensors[i])}
    IN IF ~Truthy(registration_number) THEN [ok |-> FALSE, db |-> db, sensor_id |-> 0]
       ELSE IF found /= {}
       THEN LET sensor_id == FirstOf(found)
            IN IF SensorLabelUpdate(label, db.conn.sensors[sensor_id].label)
               THEN [ok |-> TRUE, sensor_id |-> sensor_id,
                     db |-> Commit([db EXCEPT !.conn.sensors[sensor_id].label = label])]
               ELSE [ok |-> TRUE, sensor_id |-> sensor_id, db |-> db]
       ELSE [ok |-> TRUE, sensor_id |-> Len(db.conn.sensors) + 1,
             db |-> Commit([db EXCEPT !.conn.sensors = Append(@,
                       [sensor_type |-> "ibutton_ds1925", part_number |-> part_number,
                        registration_number |-> registration_number, label |-> label])])]

-----------------------------------------------------------------------------
(* upsert_sensor_deployment *)

\* the upsert inserting a row also when the pair has one
UpsertAlwaysInsert(db, sensor_id, deployment_id, location_notes, notes) ==
    Commit([db EXCEPT !.conn.sensor_deployments = Append(@,
               [sensor_id |-> sensor_id, deployment_id |-> deployment_id,
                location_notes |-> location_notes, notes |-> notes])])

\* the upsert leaving the row of a pair that has one as it is
UpsertKeepExisting(db, sensor_id, deployment_id, location_notes, notes) ==
    LET Match(r) == r.sensor_id = sensor_id /\ r.deployment_id = deployment_id
        exists == {i \in DOMAIN db.conn.sensor_deployments : Match(db.conn.sensor_deployments[i])}
    IN IF exists /= {}
       THEN Commit(db)
       ELSE Commit([db EXCEPT !.conn.sensor_deployments = Append(@,
                [sensor_id |-> sensor_id, deployment_id |-> deployment_id,
                 location_notes |-> location_notes, notes |-> notes])])

\* upsert_sensor_deployment: UPDATE the rows of the pair, or INSERT one; commit
UpsertSensorDeployment(db, sensor_id, deployment_id, location_notes, notes) ==
    LET Match(r) == r.sensor_id = sensor_id /\ r.deployment_id = deployment_id
        exists == {i \in DOMAIN db.conn.sensor_deployments : Match(db.conn.sensor_deployments[i])}
    IN IF exists /= {}
       THEN Commit([db EXCEPT !.conn.sensor_deployments =
                [i \in DOMAIN @ |-> IF i \in exists
                                    THEN [@[i] EXCEPT !.location_notes = location_notes,
                                                      !.notes = notes]
                                    ELSE @[i]]])
       ELSE Commit([db EXCEPT !.conn.sensor_deployments = Append(@,
                [sensor_id |-> sensor_id, deployment_id |-> deployment_id,
                 location_notes |-> location_notes, notes |-> notes])])

-----------------------------------------------------------------------------
(* get_or_create_deployment *)

\* get_or_create_deployment: found by name, its notes overwritten if notes are given
GetOrCreateDeployment(db, name, site, timezone_name, notes) ==
    LET Match(r) == r.name = name
        found == {i \in DOMAIN db.conn.deployments : Match(db.conn.deployments[i])}
    IN IF found /= {}
       THEN LET deployment_id == FirstOf(found)
            IN IF Truthy(notes)
               THEN [deployment_id |-> deployment_id,
                     db |-> Commit([db EXCEPT !.conn.deployments[deployment_id].notes = notes])]
               ELSE [deployment_id |-> deployment_id, db |-> db]
       ELSE [deployment_id |-> Len(db.conn.deployments) + 1,
             db |-> Commit([db EXCEPT !.conn.deployments = Append(@,
                       [name |-> name, site |-> site, timezone_name |-> timezone_name,
                        notes |-> notes])])]

-----------------------------------------------------------------------------
(* ingest_csv_file *)

\* the numeric texts of the model's value column and the float each one parses to,
\* in hundredths of a degree
FloatTable == [x \in {"-5.25", "-5.10", "21.50"} |->
                 CASE x = "-5.25" -> -525 [] x = "-5.10" -> -510 [] OTHER -> 2150]

\* float(value_str): ok = FALSE is the ValueError
Float(value_str) ==
    IF Len(value_str) = 1 /\ value_str[1] \in DOMAIN FloatTable
    THEN [ok |-> TRUE, value |-> FloatTable[value_str[1]]]
    ELSE [ok |-> FALSE, value |-> 0]

\* if len(row) < 3: continue ... if not time_local_text or not value_str: continue
ReadingRowSkipped(row) == Len(row) < 3 \/ ~Truthy(Strip(row[1])) \/ ~Truthy(Strip(row[3]))

\* the reading tuple with the sensor and the deployment in each other's place
ReadingTupleSwapped(file_id, deployment_id, sensor_id, time_local_text, time_utc, value_c) ==
    [file_id |-> file_id, deployment_id |-> sensor_id, sensor_id |-> deployment_id,
     time_local_text |-> time_local_text, time_utc |-> time_utc, value_c |-> value_c,
     quality_flag |-> 0]

\* readings.append((file_id, deployment_id, sensor_id, time_local_text, time_utc, value_c, 0))
ReadingTuple(file_id, deployment_id, sensor_id, time_local_text, time_utc, value_c) ==
    [file_id |-> file_id, deployment_id |-> deployment_id, sensor_id |-> sensor_id,
     time_local_text |-> time_local_text, time_utc |-> time_utc, value_c |-> value_c,
     quality_flag |-> 0]

RECURSIVE ParseReadingsStopAtBad(_, _, _, _, _, _, _)
\* the loop leaving at the first row it cannot parse (break for continue)
ParseReadingsStopAtBad(rows, i, file_id, deployment_id, sensor_id, timezone_name, fixed_offset) ==
    IF i > Len(rows) THEN <<>>
    ELSE LET rest == ParseReadingsStopAtBad(rows, i + 1, file_id, deployment_id, sensor_id,
                                            timezone_name, fixed_offset)
             row == rows[i]
         IN IF ReadingRowSkipped(row) THEN rest
            ELSE LET t == LocalToUtc(Strip(row[1]), timezone_name, fixed_offset)
                     v == Float(Strip(row[3]))
                 IN IF t.ok /\ v.ok
                    THEN <<ReadingTuple(file_id, deployment_id, sensor_id,
                                        Strip(row[1]), t.utc, v.value)>> \o rest
                    ELSE <<>>

RECURSIVE ParseReadings(_, _, _, _, _, _, _)
\* the loop over the data rows, from row i on: the readings list it builds
ParseReadings(rows, i, file_id, deployment_id, sensor_id, timezone_name, fixed_offset) ==
    IF i > Len(rows) THEN <<>>
    ELSE LET rest == ParseReadings(rows, i + 1, file_id, deployment_id, sensor_id,
                                   timezone_name, fixed_offset)
             row == rows[i]
         IN IF ReadingRowSkipped(row) THEN rest
            ELSE LET t == LocalToUtc(Strip(row[1]), timezone_name, fixed_offset)
                     v == Float(Strip(row[3]))
                 IN IF t.ok /\ v.ok
                    THEN <<ReadingTuple(file_id, deployment_id, sensor_id,
                                        Strip(row[1]), t.utc, v.value)>> \o rest
                    ELSE rest

\* A line of bytes that are not UTF-8: the text reader raises UnicodeDecodeError when the
\* for statement over csv.reader(f) reaches it. In the model's files such a line stands
\* in the data block only, beyond what the header parser's reader has decoded.
Undecodable == << <<"\\xff">> >>

\* the data loop's for statement raises: a line from row i on cannot be decoded
ReaderRaises(rows, i) == \E j \in i..Len(rows) : rows[j] = Undecodable

\* the byte contents the model's files can have
Contents ==
    << \* 1: sensor R1, two good rows among a bad value, an unparsable time and a short row
       << <<<<"Part", " ", "Number">>, <<"DS1925L">>>>,
          <<<<"Registration", " ", "Number">>, <<"R1">>>>,
          <<>>,
          <<<<"Date", "/", "Time">>, <<"Unit">>, <<"Value">>>>,
          <<<<"11/03/24", " ", "01:30:00", " ", "AM">>, <<"C">>, <<"-5.25">>>>,
          <<<<"11/03/24", " ", "02:30:00", " ", "AM">>, <<"C">>, <<"abc">>>>,
          <<<<"yesterday">>, <<"C">>, <<"21.50">>>>,
          <<<<"2024-12-31", " ", "13:30:00">>, <<"C">>>>,
          <<<<" ", "2024-12-31", " ", "13:30:00">>, <<"C">>, <<"-5.10", " ">>, <<"x">>>> >>,
       \* 2: sensor R1 in the "Key: Value" shape, no good row
       << <<<<"Registration", ":", " ", "R1">>>>,
          <<<<" ", "DATE", " ", "TIME", " ">>, <<"Unit">>, <<"Value">>>>,
          <<<<>>, <<"C">>, <<"21.50">>>>,
          <<<<"12/31/24", " ", "13:30:00", " ", "PM">>, <<"C">>, <<"-5.10">>>> >>,
       \* 3: sensor R2 under the bare key, the long key empty, one good row
       << <<<<"1-Wire/iButton", " ", "Registration", " ", "Number", ":">>, <<>>>>,
          <<<<"Registration">>, <<" ", "R2">>>>,
          <<<<"date", "/", "time">>, <<"Unit">>, <<"Value">>>>,
          <<<<"03/10/2024", " ", "02:30:00", " ", "AM">>, <<"C">>, <<"21.50">>>> >>,
       \* 4: no data-section boundary line
       << <<<<"Registration", " ", "Number">>, <<"R1">>>>,
          <<<<"Date">>, <<"Unit">>, <<"Value">>>>,
          <<<<"2024-12-31", " ", "13:30:00">>, <<"C">>, <<"-5.10">>>> >>,
       \* 5: no registration number: the key is missing or its value empty
       << <<<<"Part", " ", "Number">>, <<"DS1925L">>>>,
          <<<<"Registration">>, <<" ">>>>,
          <<<<"Date", "/", "Time">>, <<"Unit">>, <<"Value">>>>,
          <<<<"2024-12-31", " ", "13:30:00">>, <<"C">>, <<"-5.10">>>> >>,
       \* 6: sensor R2, one good row and then a line the reader cannot decode
       << <<<<"Registration", " ", "Number">>, <<"R2">>>>,
          <<<<"Date", "/", "Time">>, <<"Unit">>, <<"Value">>>>,
          <<<<"2024-12-31", " ", "13:30:00">>, <<"C">>, <<"21.50">>>>,
          Undecodable >> >>

\* utils.compute_file_hash: equal bytes give equal digests, different bytes different ones;
\* the digest of a content is its number in Contents
ComputeFileHash(rows) == CHOOSE h \in 1..Len(Contents) : Contents[h] = rows

\* the row of INSERT INTO files: the header metadata with the sensor's notes of the
\* document merged in as deployment_sensor_notes
FileRow(csv_path, rows, h, sensor_id, deployment_id, sensor_notes) ==
    [deployment_id |-> deployment_id, sensor_id |-> sensor_id, path |-> csv_path,
     sha256 |-> ComputeFileHash(rows),
     metadata_json |-> IF Truthy(sensor_notes)
                       THEN DictSet(h.metadata, <<"deployment_sensor_notes">>, sensor_notes)
                       ELSE h.metadata]

\* the file insert followed by a commit of its own
InsertFileRowCommitted(db, row) == Commit([db EXCEPT !.conn.files = Append(@, row)])

\* conn.execute("INSERT INTO files ..."): the row is pending on the connection
InsertFileRow(db, row) == [db EXCEPT !.conn.files = Append(@, row)]

\* ingest_csv_file's steps from the hash check on, for a file that passed the header
\* parse, the sensor resolution and the association upsert
IngestFromHashCheck(db, csv_path, rows, h, sensor_id, deployment_id, timezone_name, fixed_offset, sensor_notes, label) ==
    LET file_hash == ComputeFileHash(rows)
        file_id == Len(db.conn.files) + 1
        inserted == InsertFileRow(db, FileRow(csv_path, rows, h, sensor_id, deployment_id,
                                              sensor_notes))
        readings == ParseReadings(rows, h.data_start_line + 1, file_id, deployment_id,
                                  sensor_id, timezone_name, fixed_offset)
    IN IF FileAlreadyIngested(db, file_hash)
       THEN [outcome |-> "skipped", db |-> db, label |-> label, sensor_id |-> sensor_id,
             sha256 |-> file_hash, readings |-> <<>>]
       ELSE IF ReaderRaises(rows, h.data_start_line + 1)
       THEN [outcome |-> "read_error", db |-> inserted, label |-> label,
             sensor_id |-> sensor_id, sha256 |-> file_hash, readings |-> <<>>]
       ELSE IF readings /= <<>>
       THEN [outcome |-> "ingested", label |-> label, sensor_id |-> sensor_id,
             sha256 |-> file_hash, readings |-> readings,
             db |-> Commit([inserted EXCEPT !.conn.temperature_readings = @ \o readings])]
       ELSE [outcome |-> "no_readings", db |-> inserted, label |-> label,
             sensor_id |-> sensor_id, sha256 |-> file_hash, readings |-> <<>>]

\* deployment_metadata.get('sensors', {}).get(label, {})
SensorMetadata(dmeta, label) ==
    LET sensors == IF "sensors" \in DOMAIN dmeta THEN dmeta["sensors"] ELSE EmptyDict
    IN IF label \in DOMAIN sensors THEN sensors[label] ELSE EmptyDict

\* ingest_csv_file(conn, csv_path, deployment_id, timezone_name, deployment_metadata,
\* fixed_offset) on the file dir/name holding rows; outcome "format_error" and
\* "validation_error" are the two ValueErrors main() catches
IngestCsvFile(db, dir, name, rows, deployment_id, timezone_name, dmeta, fixed_offset) ==
    LET h == ParseHeader(rows)
        label == LabelFromStem(PathStem(name))
        sensor_metadata == SensorMetadata(dmeta, label)
        location_notes == DictGet(sensor_metadata, "location")
        sensor_notes == DictGet(sensor_metadata, "notes")
        s == GetOrCreateSensor(db, h.metadata, label)
    IN IF ~h.ok
       THEN [outcome |-> "format_error", db |-> db, label |-> None, sensor_id |-> 0,
             sha256 |-> 0, readings |-> <<>>]
       ELSE IF ~s.ok
       THEN [outcome |-> "validation_error", db |-> db, label |-> label, sensor_id |-> 0,
             sha256 |-> 0, readings |-> <<>>]
       ELSE IngestFromHashCheck(
                UpsertSensorDeployment(s.db, s.sensor_id, deployment_id, location_notes,
                                       sensor_notes),
                <<dir, "/">> \o name, rows, h, s.sensor_id, deployment_id, timezone_name,
                fixed_offset, sensor_notes, label)

-----------------------------------------------------------------------------
(* main *)

\* most files the invocations of one behaviour take from their listings, all together
MaxFiles == 2

\* the command lines: an option that is not given is None
ArgvPool ==
    { [deployment |-> None, site |-> None, timezone |-> None, notes |-> None],
      [deployment |-> <<"Test_2025">>, site |-> <<"TestSite">>, timezone |-> None,
       notes |-> None],
      [deployment |-> <<"Test_2025">>, site |-> <<"Elsewhere">>,
       timezone |-> <<"Australia/Lord_Howe">>, notes |-> <<"cli", " ", "notes">>] }

\* parser.parse_args(): --timezone defaults to 'America/New_York', the others to None
ParseArgs(argv) ==
    [argv EXCEPT !.timezone = IF @ = None THEN <<"America/New_York">> ELSE @]

\* the deployment directories and the deployment_metadata.json each one holds
\* ({} when it holds none): load_deployment_metadata
LoadDeploymentMetadata ==
    [ d \in {"bare", "adak", "fixed"} |->
        CASE d = "adak" ->
               [deployment |-> <<"Adak_2025Dec">>, site |-> <<"Adak">>,
                timezone |-> <<"Europe/London">>,
                deployment_notes |-> <<"doc", " ", "notes">>,
                sensors |-> [x \in {<<"A">>} |->
                               [location |-> <<"roof">>, notes |-> <<"shaded">>]]]
          [] d = "fixed" ->
               [timezone_fixed_offset |-> <<"-", "0", "4", ":", "0", "0">>,
                site |-> <<>>,
                sensors |-> [x \in {<<"A">>, <<"B">>} |->
                               IF x = <<"A">> THEN [location |-> <<"mast">>]
                               ELSE [notes |-> <<"spare">>]]]
          [] OTHER -> EmptyDict ]

\* the names a directory can hold, in the order sorted() gives them
NamePool ==
    << <<"A", "_", "IBUTTON", "_", "x", ".csv">>,
       <<"A", "_", "iButton", "_", "x", ".csv">>,
       <<"B", "_", "ibutton", "_", "x", ".csv">> >>

db == [conn |-> conn, disk |-> disk]

\* the record of the last ingest_csv_file call, before any call of the invocation
NoLast ==
    [outcome |-> "none", name |-> <<>>, rows |-> <<>>, label |-> None, sensor_id |-> 0,
     sha256 |-> 0, readings |-> <<>>, prev |-> "none", sensor_known |-> FALSE,
     existing_label |-> None]

NoProbe == [fn |-> "none"]

NoInvocation ==
    /\ args = EmptyDict
    /\ deployment_metadata = EmptyDict
    /\ resolved = EmptyDict
    /\ cursor = 0
    /\ idx = 0

Init ==
    /\ pc = "idle"
    /\ NoInvocation
    /\ conn = EmptyStore
    /\ disk = EmptyStore
    /\ taken = 0
    /\ last = NoLast
    /\ probe = NoProbe

\* the locals with the command line first for the timezone name too
ResolveArgsFirst(a, dmeta) ==
    [deployment_name |-> Or(a.deployment, DictGet(dmeta, "deployment")),
     site_name |-> Or(a.site, DictGet(dmeta, "site")),
     timezone_name |-> Or(a.timezone, DictGet(dmeta, "timezone")),
     fixed_offset |-> DictGet(dmeta, "timezone_fixed_offset"),
     deployment_notes |-> Or(a.notes, DictGet(dmeta, "deployment_notes"))]

\* main()'s locals deployment_name, site_name, timezone_name, fixed_offset, deployment_notes
Resolve(a, dmeta) ==
    [deployment_name |-> Or(a.deployment, DictGet(dmeta, "deployment")),
     site_name |-> Or(a.site, DictGet(dmeta, "site")),
     timezone_name |-> Or(DictGet(dmeta, "timezone"), a.timezone),
     fixed_offset |-> DictGet(dmeta, "timezone_fixed_offset"),
     deployment_notes |-> Or(a.notes, DictGet(dmeta, "deployment_notes"))]

\* main() up to the file loop, for an invocation that names its deployment and site
MainStart(argv, dir) ==
    LET a == ParseArgs(argv)
        dmeta == LoadDeploymentMetadata[dir]
        r == Resolve(a, dmeta)
        d == GetOrCreateDeployment(db, r.deployment_name, r.site_name, r.timezone_name,
                                   r.deployment_notes)
    IN /\ pc = "idle"
       /\ taken < MaxFiles
       /\ Truthy(r.deployment_name) /\ Truthy(r.site_name)
       /\ pc' = "ingesting"
       /\ args' = [argv |-> argv, parsed |-> a, dir |-> dir]
       /\ deployment_metadata' = dmeta
       /\ resolved' = r @@ [deployment_id |-> d.deployment_id]
       /\ conn' = d.db.conn
       /\ disk' = d.db.disk
       /\ cursor' = 0
       /\ idx' = 0
       /\ last' = NoLast
       /\ UNCHANGED <<taken, probe>>

\* main() printing its error and leaving by sys.exit(1): deployment or site is missing
MainExit(argv, dir) ==
    LET r == Resolve(ParseArgs(argv), LoadDeploymentMetadata[dir])
    IN /\ pc = "idle"
       /\ ~(Truthy(r.deployment_name) /\ Truthy(r.site_name))
       /\ conn' = Close(db).conn
       /\ disk' = Close(db).disk
       /\ last' = [NoLast EXCEPT !.outcome = "exit"]
       /\ UNCHANGED <<pc, args, deployment_metadata, resolved, cursor, idx, taken, probe>>

\* what the store held for a file's sensor before the file was taken (for the record
\* kept in last): whether its registration number had a row, and that row's label
SensorBefore(rows) ==
    LET reg == FirstOfKeys(ParseHeader(rows).metadata, RegistrationKeys)
        Match(r) == r.registration_number = reg
        found == {i \in DOMAIN conn.sensors : Match(conn.sensors[i])}
    IN IF ParseHeader(rows).ok /\ found /= {}
       THEN [known |-> TRUE, label |-> conn.sensors[FirstOf(found)].label]
       ELSE [known |-> FALSE, label |-> None]

\* one turn of the file loop: the next file of the sorted listing is NamePool[n], holding
\* rows; an exception of ingest_csv_file is caught and the loop continues
IngestNext(n, rows) ==
    LET r == IngestCsvFile(db, args.dir, NamePool[n], rows, resolved.deployment_id,
                           resolved.timezone_name, deployment_metadata,
                           resolved.fixed_offset)
    IN /\ pc = "ingesting"
       /\ taken < MaxFiles
       /\ n > cursor
       /\ conn' = r.db.conn
       /\ disk' = r.db.disk
       /\ cursor' = n
       /\ idx' = idx + 1
       /\ taken' = taken + 1
       /\ last' = [outcome |-> r.outcome, name |-> NamePool[n], rows |-> rows,
                   label |-> r.label, sensor_id |-> r.sensor_id, sha256 |-> r.sha256,
                   readings |-> r.readings, prev |-> last.outcome,
                   sensor_known |-> SensorBefore(rows).known,
                   existing_label |-> SensorBefore(rows).label]
       /\ UNCHANGED <<pc, args, deployment_metadata, resolved, probe>>

\* the listing is exhausted: "Ingestion complete", then conn.close() in the finally clause
MainFinish ==
    /\ pc = "ingesting"
    /\ idx >= 1
    /\ pc' = "idle"
    /\ conn' = Close(db).conn
    /\ disk' = Close(db).disk
    /\ args' = EmptyDict
    /\ deployment_metadata' = EmptyDict
    /\ resolved' = EmptyDict
    /\ cursor' = 0
    /\ idx' = 0
    /\ last' = NoLast
    /\ UNCHANGED <<taken, probe>>

\* the invocations of the model: a command line and the directory it names
Invocations ==
    {x \in ArgvPool \X DOMAIN LoadDeploymentMetadata :
        \/ x[2] = "adak"
        \/ x[1].deployment = None
        \/ x[2] = "bare" /\ x[1].timezone /= None
        \/ x[2] = "fixed" /\ x[1].timezone = None}

Next ==
    \/ \E x \in Invocations : MainStart(x[1], x[2])
    \/ \E x \in Invocations : MainExit(x[1], x[2])
    \/ \E n \in 1..Len(NamePool), c \in 1..Len(Contents) : IngestNext(n, Contents[c])
    \/ MainFinish

Spec == Init /\ [][Next]_vars

-----------------------------------------------------------------------------
(* The pure functions, each applied to inputs drawn by the initial state.   *)
(* The variables of main() stay as Init leaves them.                        *)

\* no invocation has run and none runs
Parked ==
    /\ pc = "idle"
    /\ NoInvocation
    /\ conn = EmptyStore
    /\ disk = EmptyStore
    /\ taken = 0
    /\ last = NoLast

\* all texts of at most n symbols of S
SeqsUpTo(S, n) == UNION {[1..k -> S] : k \in 0..n}

DigitSyms == <<"0", "1", "2", "3", "4", "5", "6", "7", "8", "9">>

\* a number below 100 written with two digits
TwoDigits(n) == <<DigitSyms[(n \div 10) + 1], DigitSyms[(n % 10) + 1]>>

\* the fixed offsets drawn: none, the empty text, or sign, hours and minutes
OffsetPool ==
    {[given |-> g, sign |-> "+", hh |-> 0, mm |-> 0] : g \in {"none", "empty"}}
      \cup {[given |-> "text", sign |-> sg, hh |-> h, mm |-> m] :
               sg \in {"+", "-"}, h \in {0, 5, 14}, m \in {0, 30, 45}}

\* the text of a drawn offset, as the document spells it: +HH:MM or -HH:MM
OffsetText(off) ==
    CASE off.given = "none" -> None
      [] off.given = "empty" -> <<>>
      [] OTHER -> <<off.sign>> \o TwoDigits(off.hh) \o <<":">> \o TwoDigits(off.mm)

\* the ways a timestamp is written
TimeShapes == {"mdy12", "mdY12", "iso24", "mdy24", "mdY24"}

\* a date and a clock reading written in a shape
TimeText(d, c, shape, ampm) ==
    CASE shape = "mdy12" -> <<d.mdy, " ", c.text, " ", ampm>>
      [] shape = "mdY12" -> <<d.mdY, " ", c.text, " ", ampm>>
      [] shape = "iso24" -> <<d.iso, " ", c.text>>
      [] shape = "mdy24" -> <<d.mdy, " ", c.text>>
      [] OTHER -> <<d.mdY, " ", c.text>>

\* the timestamps drawn
TimeInputs ==
    {[d |-> d, c |-> c, shape |-> sh, ampm |-> ap] :
        d \in Dates, c \in Clocks, sh \in TimeShapes, ap \in {"AM", "PM"}}

InitTime ==
    /\ Parked
    /\ \E t \in TimeInputs, z \in ZoneNames, off \in OffsetPool :
          /\ t.shape \in {"iso24", "mdy24", "mdY24"} => t.ampm = "AM"
          /\ probe = [fn |-> "local_to_utc", done |-> FALSE, t |-> t, off |-> off,
                      local_time_str |-> TimeText(t.d, t.c, t.shape, t.ampm),
                      timezone_name |-> <<z>>, fixed_offset |-> OffsetText(off),
                      result |-> [ok |-> FALSE, utc |-> 0]]

\* local_to_utc applied to the drawn input
ApplyLocalToUtc ==
    /\ probe.fn = "local_to_utc" /\ ~probe.done
    /\ probe' = [probe EXCEPT !.done = TRUE,
                              !.result = LocalToUtc(probe.local_time_str, probe.timezone_name,
                                                    probe.fixed_offset)]
    /\ UNCHANGED <<pc, args, deployment_metadata, cursor, idx, resolved, conn, disk, taken, last>>

NextTime == ApplyLocalToUtc

SpecTime == InitTime /\ [][NextTime]_vars

\* longest filename stem drawn, in symbols
MaxStem == 5

\* the symbols of the stems drawn
StemAlphabet == {"A", "_", "iButton", "ibutton", "IBUTTON", "Ibutton"}

InitLabel ==
    /\ Parked
    /\ \E stem \in SeqsUpTo(StemAlphabet, MaxStem) :
          probe = [fn |-> "label", done |-> FALSE, name |-> stem \o <<".csv">>,
                   result |-> None]

\* ingest_csv_file's label derivation applied to the drawn filename
ApplyLabel ==
    /\ probe.fn = "label" /\ ~probe.done
    /\ probe' = [probe EXCEPT !.done = TRUE, !.result = LabelFromStem(PathStem(probe.name))]
    /\ UNCHANGED <<pc, args, deployment_metadata, cursor, idx, resolved, conn, disk, taken, last>>

NextLabel == ApplyLabel

SpecLabel == InitLabel /\ [][NextLabel]_vars

\* most lines of a drawn file
MaxRows == 3

\* the lines the drawn files are made of, as csv.reader gives them
RowPool ==
    { <<>>,
      << <<" ", "Date", "/", "Time", " ">>, <<"Unit">>, <<"Value">> >>,
      << <<"DATE", " ", "TIME">> >>,
      << <<"Date", "/", "Time", ":">> >>,
      << <<"Date">>, <<"Time">> >>,
      << <<"Part", ":", " ", "X", ":", "Y">> >>,
      << <<" ", "Registration", " ", "Number", ":">>, <<" ", "R1", " ">> >>,
      << <<"Registration", " ", "Number">>, <<"R2">>, <<"extra">> >>,
      << <<"note">> >> }

InitHeader ==
    /\ Parked
    /\ \E rows \in SeqsUpTo(RowPool, MaxRows) :
          probe = [fn |-> "parse_ibutton_header", done |-> FALSE, rows |-> rows,
                   result |-> [ok |-> FALSE, metadata |-> EmptyDict, data_start_line |-> 0]]

\* parse_ibutton_header applied to the drawn file
ApplyParseHeader ==
    /\ probe.fn = "parse_ibutton_header" /\ ~probe.done
    /\ probe' = [probe EXCEPT !.done = TRUE, !.result = ParseHeader(probe.rows)]
    /\ UNCHANGED <<pc, args, deployment_metadata, cursor, idx, resolved, conn, disk, taken, last>>

NextHeader == ApplyParseHeader

SpecHeader == InitHeader /\ [][NextHeader]_vars

-----------------------------------------------------------------------------
(* One batch under crashes: the invocation is killed while it works on the   *)
(* batch, the connection's pending writes are lost, and the same command is   *)
(* run again on the same directory until it completes.                        *)

\* most crashes of one behaviour
MaxCrashes == 2

\* the directories' listings: up to MaxFiles names in sorted order, each with its content
Batches ==
    {b \in UNION {[1..k -> (1..Len(NamePool)) \X (1..Len(Contents))] : k \in 1..MaxFiles} :
        \A i \in 1..(Len(b) - 1) : b[i][1] < b[i + 1][1]}

\* the committed stores a kill can leave while ingest_csv_file works on a file: before it,
\* after the commit of get_or_create_sensor, after the commit of upsert_sensor_deployment
\* and, for a file that is no duplicate, after INSERT INTO files and before line 361
CrashPoints(d, dir, name, rows, deployment_id, dmeta) ==
    LET h == ParseHeader(rows)
        label == LabelFromStem(PathStem(name))
        sensor_metadata == SensorMetadata(dmeta, label)
        s == GetOrCreateSensor(d, h.metadata, label)
        u == UpsertSensorDeployment(s.db, s.sensor_id, deployment_id,
                                    DictGet(sensor_metadata, "location"),
                                    DictGet(sensor_metadata, "notes"))
        f == InsertFileRow(u, FileRow(<<dir, "/">> \o name, rows, h, s.sensor_id,
                                      deployment_id, DictGet(sensor_metadata, "notes")))
    IN IF ~h.ok \/ ~s.ok THEN {d.disk}
       ELSE IF FileAlreadyIngested(u, ComputeFileHash(rows)) THEN {d.disk, s.db.disk, u.disk}
       ELSE {d.disk, s.db.disk, u.disk, f.disk}

InitCrash ==
    /\ Parked
    /\ \E x \in Invocations, b \in Batches :
          /\ Truthy(Resolve(ParseArgs(x[1]), LoadDeploymentMetadata[x[2]]).deployment_name)
          /\ Truthy(Resolve(ParseArgs(x[1]), LoadDeploymentMetadata[x[2]]).site_name)
          /\ probe = [fn |-> "batch", done |-> FALSE, argv |-> x[1], dir |-> x[2],
                      files |-> b, crashes |-> 0, crashed_at |-> 0]

\* the command is started (again)
BatchStart == probe.fn = "batch" /\ ~probe.done /\ MainStart(probe.argv, probe.dir)

\* the file loop takes the next file of the directory
BatchIngest ==
    /\ probe.fn = "batch" /\ pc = "ingesting" /\ idx < Len(probe.files)
    /\ IngestNext(probe.files[idx + 1][1], Contents[probe.files[idx + 1][2]])

\* the process is killed between two files or inside ingest_csv_file: what is not
\* committed is lost
BatchCrash ==
    /\ probe.fn = "batch" /\ pc = "ingesting" /\ probe.crashes < MaxCrashes
    /\ \E d \in (IF idx < Len(probe.files)
                 THEN CrashPoints(db, args.dir, NamePool[probe.files[idx + 1][1]],
                                  Contents[probe.files[idx + 1][2]], resolved.deployment_id,
                                  deployment_metadata)
                 ELSE {disk}) :
          /\ conn' = d
          /\ disk' = d
    /\ pc' = "idle"
    /\ args' = EmptyDict
    /\ deployment_metadata' = EmptyDict
    /\ resolved' = EmptyDict
    /\ cursor' = 0
    /\ idx' = 0
    /\ taken' = 0
    /\ last' = NoLast
    /\ probe' = [probe EXCEPT !.crashes = @ + 1, !.crashed_at = idx]

\* the listing is exhausted and main() ends: conn.close()
BatchFinish ==
    /\ probe.fn = "batch" /\ pc = "ingesting" /\ idx = Len(probe.files)
    /\ pc' = "idle"
    /\ conn' = Close(db).conn
    /\ disk' = Close(db).disk
    /\ args' = EmptyDict
    /\ deployment_metadata' = EmptyDict
    /\ resolved' = EmptyDict
    /\ cursor' = 0
    /\ idx' = 0
    /\ last' = NoLast
    /\ probe' = [probe EXCEPT !.done = TRUE]
    /\ UNCHANGED taken

NextCrash == BatchStart \/ BatchIngest \/ BatchCrash \/ BatchFinish

SpecCrash == InitCrash /\ [][NextCrash]_vars

-----------------------------------------------------------------------------
(* Properties of the ingestion: what the steps below speak of *)

\* the step is one call of ingest_csv_file (last' records the file it was given)
IngestStep == taken' = taken + 1

\* a line marks the data section: its first field, trimmed, is "date/time" or
\* "date time" in some letter case
BoundaryLine(row) ==
    row /= <<>> /\ Lower(Strip(row[1])) \in {<<"date", "/", "time">>, <<"date", " ", "time">>}

\* the content has no data-section boundary line
NoBoundary(rows) == \A i \in 1..Len(rows) : ~BoundaryLine(rows[i])

\* the number of the first boundary line of a content that has one
FirstBoundary(rows) ==
    CHOOSE k \in 1..Len(rows) : BoundaryLine(rows[k]) /\ \A j \in 1..(k - 1) : ~BoundaryLine(rows[j])

\* the content has a boundary line and its metadata gives no registration number
NoRegistration(rows) ==
    /\ ~NoBoundary(rows)
    /\ \A k \in 1..Len(RegistrationKeys) :
          DictGet(ParseHeader(rows).metadata, RegistrationKeys[k]) \in {None, <<>>}

\* the content's registration number, for a content that gives one
RegistrationOf(rows) == FirstOfKeys(ParseHeader(rows).metadata, RegistrationKeys)

\* the store holds a file row with the content's hash
Recorded(store, rows) ==
    \E i \in 1..Len(store.files) : store.files[i].sha256 = ComputeFileHash(rows)

\* the step takes a file whose bytes the store has recorded already
DuplicateStep == IngestStep /\ Recorded(conn, last'.rows)

\* a data row the claims call well-formed
WellFormed(row) ==
    /\ Len(row) >= 3
    /\ Strip(row[1]) /= <<>> /\ Strip(row[3]) /= <<>>
    /\ TryFormats(Strip(row[1]), 1).ok
    /\ Float(Strip(row[3])).ok

\* the well-formed rows of a content's data block, in file order
GoodRows(rows) == SelectSeq(SubSeq(rows, FirstBoundary(rows) + 1, Len(rows)), WellFormed)

\* no two file rows of the store share a content hash
HashUnique(store) ==
    \A i, j \in 1..Len(store.files) : store.files[i].sha256 = store.files[j].sha256 => i = j

\* the data loop raises on the content: a line of its data block cannot be decoded
ReadFails(rows) == \E j \in (FirstBoundary(rows) + 1)..Len(rows) : rows[j] = Undecodable

\* every file row of the store owns one batch: as many readings as its content has
\* well-formed rows (none when the data loop raised on the content)
OneBatch(store) ==
    \A i \in 1..Len(store.files) :
        Cardinality({j \in 1..Len(store.temperature_readings) :
                         store.temperature_readings[j].file_id = i})
          = IF ReadFails(Contents[store.files[i].sha256]) THEN 0
            ELSE Len(GoodRows(Contents[store.files[i].sha256]))

\* C1: at most one IngestedFile row exists per content hash, each with one batch of
\* Readings, and taking a file whose bytes are already recorded adds no IngestedFile
\* row and no Reading row, whatever its name or directory
C1_OneRowPerHash ==
    /\ [](HashUnique(conn) /\ HashUnique(disk) /\ OneBatch(conn))
    /\ [][DuplicateStep =>
            /\ conn'.files = conn.files
            /\ conn'.temperature_readings = conn.temperature_readings]_vars

\* C1 happens: a file is skipped whose bytes were recorded under another path
C1_Witness ==
    /\ pc = "ingesting" /\ last.outcome = "skipped"
    /\ \E i \in 1..Len(conn.files) :
          /\ conn.files[i].sha256 = last.sha256
          /\ conn.files[i].path /= <<args.dir, "/">> \o last.name
    /\ HashUnique(conn)

\* C2 as claimed: taking a file whose bytes are already recorded changes no row of any
\* of the five tables
C2_SecondRunChangesNothing == [][DuplicateStep => conn' = conn]_vars

\* the association row of the step's file: its sensor and the invocation's deployment
OfPair(r) == r.sensor_id = last'.sensor_id /\ r.deployment_id = resolved.deployment_id

\* C2 amended: taking a file whose bytes are already recorded inserts or changes no
\* Deployment, IngestedFile or Reading row and inserts no Sensor row; it may back-fill
\* the empty label of the file's Sensor row, and it inserts or overwrites the one
\* SensorDeployment row of the file's (sensor, deployment) pair
C2_SecondRunKeepsFilesAndReadings ==
    [][DuplicateStep =>
        /\ conn'.files = conn.files
        /\ conn'.temperature_readings = conn.temperature_readings
        /\ conn'.deployments = conn.deployments
        /\ Len(conn'.sensors) = Len(conn.sensors)
        /\ \A i \in 1..Len(conn.sensors) :
              \/ conn'.sensors[i] = conn.sensors[i]
              \/ /\ i = last'.sensor_id
                 /\ ~Truthy(conn.sensors[i].label) /\ Truthy(last'.label)
                 /\ conn'.sensors[i] = [conn.sensors[i] EXCEPT !.label = last'.label]
        /\ \A i \in 1..Len(conn.sensor_deployments) :
              \/ conn'.sensor_deployments[i] = conn.sensor_deployments[i]
              \/ OfPair(conn.sensor_deployments[i])
        /\ Cardinality({i \in DOMAIN conn'.sensor_deployments : OfPair(conn'.sensor_deployments[i])}) = 1
        /\ Len(conn'.sensor_deployments) =
              Len(conn.sensor_deployments)
                + (IF {i \in DOMAIN conn.sensor_deployments : OfPair(conn.sensor_deployments[i])} = {} THEN 1 ELSE 0)]_vars

\* C2 happens: a skipped duplicate back-filled the label of its sensor
C2_Witness ==
    /\ pc = "ingesting" /\ last.outcome = "skipped"
    /\ last.sensor_known /\ ~Truthy(last.existing_label) /\ Truthy(last.label)
    /\ conn.sensors[last.sensor_id].label = last.label

\* both the command line and the document supply the field
BothSupply(field, key) ==
    Truthy(args.argv[field]) /\ Truthy(DictGet(deployment_metadata, key))

\* C3 as claimed: for deployment name, site name, timezone name and notes alike, the
\* command line's value is the one used when the document supplies one too
C3_CommandLineWins ==
    pc = "ingesting" =>
        /\ BothSupply("deployment", "deployment") => resolved.deployment_name = args.argv.deployment
        /\ BothSupply("site", "site") => resolved.site_name = args.argv.site
        /\ BothSupply("timezone", "timezone") => resolved.timezone_name = args.argv.timezone
        /\ BothSupply("notes", "deployment_notes") => resolved.deployment_notes = args.argv.notes

\* the timezone-mode conversions of the last file used the zone z
ConvertedWith(z) ==
    last.outcome = "ingested" /\ ~Truthy(resolved.fixed_offset) =>
        \A j \in 1..Len(last.readings) :
            last.readings[j].time_utc = LocalToUtc(last.readings[j].time_local_text, z, None).utc

\* C3 amended: when both supply a value, the command line's deployment name, site name
\* and notes are the ones used for deployment resolution, but the document's timezone
\* name is the one used for deployment resolution and timestamp conversion
C3_CommandLineWinsButTimezone ==
    /\ [](pc = "ingesting" =>
            /\ BothSupply("deployment", "deployment") =>
                  /\ resolved.deployment_name = args.argv.deployment
                  /\ conn.deployments[resolved.deployment_id].name = args.argv.deployment
            /\ BothSupply("site", "site") => resolved.site_name = args.argv.site
            /\ BothSupply("notes", "deployment_notes") =>
                  /\ resolved.deployment_notes = args.argv.notes
                  /\ conn.deployments[resolved.deployment_id].notes = args.argv.notes
            /\ BothSupply("timezone", "timezone") =>
                  /\ resolved.timezone_name = deployment_metadata.timezone
                  /\ ConvertedWith(deployment_metadata.timezone))
    /\ [][pc = "idle" /\ pc' = "ingesting" /\ Len(conn'.deployments) > Len(conn.deployments) =>
            LET row == conn'.deployments[Len(conn'.deployments)]
                both(f, k) == Truthy(args'.argv[f]) /\ Truthy(DictGet(deployment_metadata', k))
            IN /\ both("site", "site") => row.site = args'.argv.site
               /\ both("notes", "deployment_notes") => row.notes = args'.argv.notes
               /\ both("timezone", "timezone") => row.timezone_name = deployment_metadata'.timezone]_vars

\* C3 happens: all four fields are supplied twice with different values and a file was
\* converted in timezone mode
C3_Witness ==
    /\ pc = "ingesting" /\ last.outcome = "ingested" /\ ~Truthy(resolved.fixed_offset)
    /\ BothSupply("deployment", "deployment") /\ BothSupply("site", "site")
    /\ BothSupply("timezone", "timezone") /\ BothSupply("notes", "deployment_notes")
    /\ args.argv.deployment /= deployment_metadata.deployment
    /\ args.argv.timezone /= deployment_metadata.timezone
    /\ \E j \in 1..Len(last.readings) :
          last.readings[j].time_utc
            /= LocalToUtc(last.readings[j].time_local_text, args.argv.timezone, None).utc

\* C4: a file without boundary line or without registration number is given up before
\* any write (no row of the store, pending or committed, is created or changed) and the
\* file loop goes on
C4_BadFileWritesNothing ==
    [][IngestStep /\ (NoBoundary(last'.rows) \/ NoRegistration(last'.rows)) =>
          /\ conn' = conn /\ disk' = disk
          /\ last'.outcome \in {"format_error", "validation_error"}
          /\ pc' = "ingesting" /\ cursor' > cursor]_vars

\* C4 happens: the file after a file that was given up is ingested
C4_Witness ==
    /\ pc = "ingesting"
    /\ last.prev \in {"format_error", "validation_error"}
    /\ last.outcome = "ingested"

\* the step takes a file that passes the header parse and whose registration number
\* has a Sensor row
KnownSensorStep ==
    /\ IngestStep /\ ~NoBoundary(last'.rows) /\ ~NoRegistration(last'.rows)
    /\ \E i \in 1..Len(conn.sensors) :
          conn.sensors[i].registration_number = RegistrationOf(last'.rows)

\* the Sensor row of the step's file
SensorRowOf(rows) ==
    CHOOSE i \in 1..Len(conn.sensors) : conn.sensors[i].registration_number = RegistrationOf(rows)

\* C7: a file naming a registration number that has a Sensor row reuses the row and
\* creates none; the stored label becomes the file's derived label exactly when the
\* stored label is empty and the derived one is not; no step overwrites a stored
\* non-empty label
C7_SensorReusedLabelBackfilled ==
    [][/\ KnownSensorStep =>
            LET i == SensorRowOf(last'.rows)
                derived == LabelFromStem(PathStem(last'.name))
            IN /\ Len(conn'.sensors) = Len(conn.sensors)
               /\ last'.sensor_id = i
               /\ conn'.sensors[i].label =
                     IF ~Truthy(conn.sensors[i].label) /\ Truthy(derived)
                     THEN derived ELSE conn.sensors[i].label
               /\ \A j \in 1..Len(conn.sensors) : j /= i => conn'.sensors[j] = conn.sensors[j]
       /\ \A j \in 1..Len(conn.sensors) :
            /\ j <= Len(conn'.sensors)
            /\ Truthy(conn.sensors[j].label) => conn'.sensors[j].label = conn.sensors[j].label]_vars

\* C7 happens: a fresh file of a known sensor without label back-filled the label,
\* and the sensor has one row
C7_Witness ==
    /\ pc = "ingesting" /\ last.outcome \in {"ingested", "no_readings"}
    /\ last.sensor_known /\ ~Truthy(last.existing_label) /\ Truthy(last.label)
    /\ conn.sensors[last.sensor_id].label = last.label
    /\ Cardinality({i \in 1..Len(conn.sensors) :
           conn.sensors[i].registration_number = conn.sensors[last.sensor_id].registration_number}) = 1

\* the step takes a fresh file: it passes the header parse and the sensor resolution, its
\* bytes are not recorded and every line of its data block can be read
FreshStep ==
    /\ IngestStep /\ ~NoBoundary(last'.rows) /\ ~NoRegistration(last'.rows)
    /\ ~Recorded(conn, last'.rows)
    /\ ~ReadFails(last'.rows)

\* C8: of a fresh file exactly the well-formed data rows are stored as Readings, in file
\* order, each with quality flag 0 and owned by the file's new IngestedFile row, whatever
\* malformed rows stand among them; with at least one reading the write is committed
C8_WellFormedRowsPersisted ==
    [][FreshStep =>
          LET good == GoodRows(last'.rows)
              old == Len(conn.temperature_readings)
              file_id == Len(conn.files) + 1
          IN /\ Len(conn'.files) = file_id
             /\ SubSeq(conn'.files, 1, file_id - 1) = conn.files
             /\ conn'.files[file_id].sha256 = ComputeFileHash(last'.rows)
             /\ Len(conn'.temperature_readings) = old + Len(good)
             /\ SubSeq(conn'.temperature_readings, 1, old) = conn.temperature_readings
             /\ \A j \in 1..Len(good) :
                   LET r == conn'.temperature_readings[old + j]
                   IN /\ r.quality_flag = 0
                      /\ r.file_id = file_id
                      /\ r.time_local_text = Strip(good[j][1])
                      /\ r.value_c = Float(Strip(good[j][3])).value
             /\ Len(good) >= 1 => disk' = conn'
             /\ last'.outcome \in {"ingested", "no_readings"}]_vars

\* C8 happens: a file with two well-formed rows among malformed ones was ingested
C8_Witness ==
    /\ pc = "ingesting" /\ last.outcome = "ingested"
    /\ Len(last.readings) = 2
    /\ Len(last.rows) - FirstBoundary(last.rows) > 2
    /\ \E i \in 1..Len(disk.files) : disk.files[i].sha256 = last.sha256

-----------------------------------------------------------------------------
(* Properties of local_to_utc *)

\* the drawn timestamp is one local_to_utc can read: a 12-hour clock reads hours 1 to 12,
\* and a four-digit year goes with the 12-hour clock or the ISO date only
Parsable(t) ==
    CASE t.shape \in {"mdy12", "mdY12"} -> t.c.h \in 1..12
      [] t.shape = "mdY24" -> FALSE
      [] OTHER -> TRUE

\* the naive local time the drawn timestamp denotes, in seconds from 1970-01-01 00:00:00
NaiveOf(t) ==
    LET hour == IF t.shape \in {"mdy12", "mdY12"}
                THEN (t.c.h % 12) + (IF t.ampm = "PM" THEN 12 ELSE 0)
                ELSE t.c.h
    IN t.d.days * 86400 + hour * 3600 + t.c.m * 60 + t.c.s

\* the offset in force in a zone at the UTC instant u
OffsetAt(z, u) ==
    LET passed == {i \in 1..Len(z.trans) : z.trans[i].utc <= u}
    IN IF passed = {} THEN z.before
       ELSE z.trans[CHOOSE i \in passed : \A j \in passed : j <= i].off

\* the offsets a zone has in force at some time
ZoneOffsets(z) == {z.before} \cup {z.trans[i].off : i \in 1..Len(z.trans)}

\* the UTC instants at which the zone's wall clock reads dt
Occurrences(z, dt) == {u \in {dt - o : o \in ZoneOffsets(z)} : u + OffsetAt(z, u) = dt}

\* local_to_utc was applied in timezone mode to a timestamp it can read
TimezoneMode ==
    /\ probe.fn = "local_to_utc" /\ probe.done
    /\ probe.off.given /= "text" /\ Parsable(probe.t)

\* the drawn local time falls in the repeated hour of a fall-back of the drawn zone
Repeated == Cardinality(Occurrences(ZoneTable[probe.timezone_name[1]], NaiveOf(probe.t))) = 2

\* C5: in timezone mode a local time of a repeated hour is resolved to the later of its
\* two UTC instants, the one after the fall-back transition read with the offset the
\* transition sets (standard time), never to the first
C5_SecondOccurrence ==
    TimezoneMode /\ Repeated =>
        LET z == ZoneTable[probe.timezone_name[1]]
            dt == NaiveOf(probe.t)
            utc == probe.result.utc
        IN /\ probe.result.ok
           /\ utc \in Occurrences(z, dt)
           /\ \A u \in Occurrences(z, dt) : u <= utc
           /\ \E i \in 1..Len(z.trans) :
                 /\ z.trans[i].off < OffsetBefore(z, i)
                 /\ z.trans[i].utc <= utc
                 /\ utc + z.trans[i].off = dt

\* C5 happens: a time of Lord Howe Island's repeated half hour was resolved to an instant
\* half an hour after its first occurrence
C5_Witness ==
    /\ TimezoneMode /\ Repeated
    /\ probe.timezone_name = <<"Australia/Lord_Howe">>
    /\ probe.result.ok
    /\ probe.result.utc - 1800 \in Occurrences(ZoneTable["Australia/Lord_Howe"], NaiveOf(probe.t))

\* local_to_utc was applied with a fixed offset +HH:MM or -HH:MM
FixedOffsetMode == probe.fn = "local_to_utc" /\ probe.done /\ probe.off.given = "text"

\* the drawn offset in seconds east of UTC
SignedSeconds(off) == (IF off.sign = "+" THEN 1 ELSE -1) * (off.hh * 3600 + off.mm * 60)

\* C6: with a fixed offset, every readable local time is returned as its naive reading
\* minus the offset in seconds, so that adding the offset gives the local time back, and
\* the result is the same for every timezone name, daylight-saving rules and all
C6_FixedOffsetRoundTrip ==
    FixedOffsetMode /\ Parsable(probe.t) =>
        /\ probe.result.ok
        /\ probe.result.utc = NaiveOf(probe.t) - SignedSeconds(probe.off)
        /\ probe.result.utc + SignedSeconds(probe.off) = NaiveOf(probe.t)
        /\ \A z \in ZoneNames :
              LocalToUtc(probe.local_time_str, <<z>>, probe.fixed_offset) = probe.result

\* C6 happens: a time of a zone's repeated hour was converted with a negative offset of
\* hours and minutes, to another instant than the zone's rules give
C6_Witness ==
    /\ FixedOffsetMode /\ Parsable(probe.t) /\ Repeated
    /\ probe.off.sign = "-" /\ probe.off.hh > 0 /\ probe.off.mm > 0
    /\ probe.result.ok
    /\ probe.result.utc \notin Occurrences(ZoneTable[probe.timezone_name[1]], NaiveOf(probe.t))

-----------------------------------------------------------------------------
(* Properties of the label derivation *)

\* the stem of the drawn filename
StemOf(name) == SubSeq(name, 1, Len(name) - 1)

\* the marker m stands at position i of the stem s
MarkerAt(s, m, i) == i \in 1..(Len(s) - 2) /\ SubSeq(s, i, i + 2) = <<"_", m, "_">>

\* the marker m stands somewhere in the first e symbols of the stem s
MarkerWithin(s, m, e) == \E i \in 1..(e - 2) : MarkerAt(s, m, i)

\* the first position of the marker m in the first e symbols of s
FirstMarker(s, m, e) ==
    CHOOSE i \in 1..(e - 2) : MarkerAt(s, m, i) /\ \A j \in 1..(i - 1) : ~MarkerAt(s, m, j)

\* the label was derived from a filename with a stem
LabelDerived == probe.fn = "label" /\ probe.done /\ Len(probe.name) > 1

\* C9 as claimed: the label is the text before the first "_ibutton_" marker in any
\* letter casing, and there is no label when no casing of the marker is in the name
C9_LabelAnyCasing ==
    LabelDerived =>
        LET s == StemOf(probe.name)
            at(i) == \E m \in {"iButton", "ibutton", "IBUTTON", "Ibutton"} : MarkerAt(s, m, i)
        IN IF \E i \in 1..Len(s) : at(i)
           THEN probe.result
                  = SubSeq(s, 1, (CHOOSE i \in 1..Len(s) : at(i) /\ \A j \in 1..(i - 1) : ~at(j)) - 1)
           ELSE probe.result = None

\* C9 amended: only the spellings "_iButton_" and "_ibutton_" count as the marker. The
\* label is the text before the first "_iButton_", cut again before the first "_ibutton_"
\* that lies wholly in it; a name with neither spelling yields no label
C9_LabelTwoSpellings ==
    LabelDerived =>
        LET s == StemOf(probe.name)
            e == IF MarkerWithin(s, "iButton", Len(s))
                 THEN FirstMarker(s, "iButton", Len(s)) - 1
                 ELSE Len(s)
        IN IF ~MarkerWithin(s, "iButton", Len(s)) /\ ~MarkerWithin(s, "ibutton", Len(s))
           THEN probe.result = None
           ELSE IF MarkerWithin(s, "ibutton", e)
           THEN probe.result = SubSeq(s, 1, FirstMarker(s, "ibutton", e) - 1)
           ELSE probe.result = SubSeq(s, 1, e)

\* C9 happens: a name with the marker in capitals only has no label
C9_Witness ==
    /\ LabelDerived
    /\ MarkerAt(StemOf(probe.name), "IBUTTON", 2)
    /\ ~MarkerWithin(StemOf(probe.name), "iButton", Len(probe.name))
    /\ ~MarkerWithin(StemOf(probe.name), "ibutton", Len(probe.name))
    /\ probe.result = None

-----------------------------------------------------------------------------
(* Properties of parse_ibutton_header *)

\* a line before the boundary gives a key/value pair
GivesPair(row) ==
    \/ Len(row) >= 2
    \/ Len(row) = 1 /\ \E i \in 1..Len(row[1]) : row[1][i] = ":"

\* the position of the first colon of a text that has one
FirstColon(t) == CHOOSE i \in 1..Len(t) : t[i] = ":" /\ \A j \in 1..(i - 1) : t[j] /= ":"

\* the key a line gives: the first field trimmed, without trailing colons, or the text
\* before the first colon of a one-field line, trimmed
KeyOf(row) ==
    IF Len(row) >= 2 THEN RStripChar(Strip(row[1]), ":")
    ELSE Strip(SubSeq(row[1], 1, FirstColon(row[1]) - 1))

\* the value a line gives: the second field, or the text after the first colon, trimmed
ValueOf(row) ==
    IF Len(row) >= 2 THEN Strip(row[2])
    ELSE Strip(SubSeq(row[1], FirstColon(row[1]) + 1, Len(row[1])))

\* the key/value pairs of the lines before line b, a later line replacing an earlier
\* one's value for the same key
PairsBefore(rows, b) ==
    LET giving == {i \in 1..(b - 1) : rows[i] /= <<>> /\ GivesPair(rows[i])}
        lastOf(k) == CHOOSE i \in giving :
                        KeyOf(rows[i]) = k /\ \A j \in giving : KeyOf(rows[j]) = k => j <= i
    IN [k \in {KeyOf(rows[i]) : i \in giving} |-> ValueOf(rows[lastOf(k)])]

\* parse_ibutton_header was applied
HeaderParsed == probe.fn = "parse_ibutton_header" /\ probe.done

\* C10: the data-start marker is the number of the first line whose first field, trimmed
\* and in lower case, is "date/time" or "date time"; the metadata holds the key/value
\* pairs of the non-blank lines before that line and nothing else; without such a line the
\* parser raises instead of returning
C10_FirstBoundaryEndsHeader ==
    HeaderParsed =>
        IF NoBoundary(probe.rows)
        THEN ~probe.result.ok
        ELSE /\ probe.result.ok
             /\ probe.result.data_start_line = FirstBoundary(probe.rows)
             /\ probe.result.metadata = PairsBefore(probe.rows, FirstBoundary(probe.rows))

\* C10 happens: a file with metadata, a boundary line and after it a second boundary
\* line or a line that reads as a key/value pair
C10_Witness ==
    /\ HeaderParsed /\ probe.result.ok
    /\ DOMAIN probe.result.metadata /= {}
    /\ probe.result.data_start_line = 2
    /\ Len(probe.rows) = 3
    /\ BoundaryLine(probe.rows[3]) \/ GivesPair(probe.rows[3])

-----------------------------------------------------------------------------
(* Properties of the store *)

\* every reading of the store names a file row of the store, and that row's sensor and
\* deployment are the reading's own
ReadingsOwned(store) ==
    \A j \in 1..Len(store.temperature_readings) :
        LET r == store.temperature_readings[j]
        IN /\ r.file_id \in 1..Len(store.files)
           /\ store.files[r.file_id].sensor_id = r.sensor_id
           /\ store.files[r.file_id].deployment_id = r.deployment_id

\* C11: in every state of the store, as the connection sees it and as committed, each
\* Reading references one existing IngestedFile row, whose sensor and deployment are the
\* Reading's own
C11_ReadingsOwnedByTheirFile == ReadingsOwned(conn) /\ ReadingsOwned(disk)

\* C11 happens: the committed store holds readings of two files that differ in sensor,
\* and a reading whose sensor id is not its deployment id
C11_Witness ==
    /\ \E i, j \in 1..Len(disk.temperature_readings) :
          /\ disk.temperature_readings[i].file_id /= disk.temperature_readings[j].file_id
          /\ disk.temperature_readings[i].sensor_id /= disk.temperature_readings[j].sensor_id
    /\ \E i \in 1..Len(disk.temperature_readings) :
          disk.temperature_readings[i].sensor_id /= disk.temperature_readings[i].deployment_id

\* no two sensor rows of the store share a registration number and none has an empty one
SensorsKeyed(store) ==
    /\ \A i, j \in 1..Len(store.sensors) :
          store.sensors[i].registration_number = store.sensors[j].registration_number => i = j
    /\ \A i \in 1..Len(store.sensors) : Truthy(store.sensors[i].registration_number)

\* C12: in every state of the store, as the connection sees it and as committed, no two
\* Sensor rows share a registration number and none has an empty one, under whichever of
\* the recognized keys the files spell it
C12_RegistrationNumberUnique == SensorsKeyed(conn) /\ SensorsKeyed(disk)

\* C12 happens: two files spelled the same registration number under different keys
\* ("Registration Number" and "Registration") and the store holds one row for it
C12_Witness ==
    /\ pc = "ingesting" /\ last.sensor_known /\ last.sensor_id = 1
    /\ Len(conn.sensors) = 1
    /\ DictGet(ParseHeader(last.rows).metadata, RegistrationKeys[2]) = None
    /\ DictGet(ParseHeader(last.rows).metadata, RegistrationKeys[3]) = conn.sensors[1].registration_number
    /\ \E i \in 1..Len(conn.files) :
          /\ conn.files[i].sensor_id = 1
          /\ DictGet(conn.files[i].metadata_json, RegistrationKeys[2]) = conn.sensors[1].registration_number

\* the step takes a file that passes the header parse and the sensor resolution
ResolvedStep == IngestStep /\ ~NoBoundary(last'.rows) /\ ~NoRegistration(last'.rows)

\* what the document gives under a field for a label; None when it names no sensors,
\* not this label (a file without label included) or not this field for it
OverrideOf(dmeta, label, field) ==
    IF /\ "sensors" \in DOMAIN dmeta
       /\ label \in DOMAIN dmeta.sensors
       /\ field \in DOMAIN dmeta.sensors[label]
    THEN dmeta.sensors[label][field]
    ELSE None

\* C13: a file that passes the header parse and the sensor resolution, duplicate or not,
\* leaves exactly one association row for its sensor and the invocation's deployment,
\* committed, whose location notes and notes are the document's overrides for the label
\* derived from the file's name (None where there is none), whatever the row held before
C13_AssociationUpsertedPerFile ==
    [][ResolvedStep =>
          LET label == LabelFromStem(PathStem(last'.name))
              Pair(r) == r.sensor_id = last'.sensor_id /\ r.deployment_id = resolved.deployment_id
              rows == {i \in 1..Len(conn'.sensor_deployments) : Pair(conn'.sensor_deployments[i])}
          IN /\ Cardinality(rows) = 1
             /\ \A i \in rows :
                   /\ conn'.sensor_deployments[i].location_notes
                        = OverrideOf(deployment_metadata, label, "location")
                   /\ conn'.sensor_deployments[i].notes
                        = OverrideOf(deployment_metadata, label, "notes")
             /\ disk'.sensor_deployments = conn'.sensor_deployments
             /\ \A i \in 1..Len(conn.sensor_deployments) :
                   ~Pair(conn.sensor_deployments[i]) =>
                       conn'.sensor_deployments[i] = conn.sensor_deployments[i]]_vars

\* C13 happens: a skipped duplicate named for label B replaced the location that the same
\* bytes, named for label A, had stored for the pair, and stored B's notes
C13_Witness ==
    /\ pc = "ingesting" /\ last.outcome = "skipped" /\ last.label = <<"B">>
    /\ args.dir = "fixed"
    /\ \E i \in 1..Len(conn.files) :
          /\ conn.files[i].sha256 = last.sha256
          /\ conn.files[i].deployment_id = resolved.deployment_id
          /\ conn.files[i].path = <<"fixed", "/">> \o NamePool[2]
    /\ \E i \in 1..Len(disk.sensor_deployments) :
          /\ disk.sensor_deployments[i].sensor_id = last.sensor_id
          /\ disk.sensor_deployments[i].deployment_id = resolved.deployment_id
          /\ disk.sensor_deployments[i].location_notes = None
          /\ disk.sensor_deployments[i].notes = <<"spare">>

\* the rows of a content's data block that the data loop parsed: the well-formed rows, up
\* to the line that made the reader raise if there is one
ParsedRows(rows) ==
    LET b == FirstBoundary(rows)
        bad == {j \in (b + 1)..Len(rows) : rows[j] = Undecodable}
        e == IF bad = {} THEN Len(rows) ELSE (CHOOSE j \in bad : \A k \in bad : j <= k) - 1
    IN SelectSeq(SubSeq(rows, b + 1, e), WellFormed)

\* every file row of the store has with it a reading for each row parsed from its content
WithItsReadings(store) ==
    \A i \in 1..Len(store.files) :
        Cardinality({j \in 1..Len(store.temperature_readings) :
                         store.temperature_readings[j].file_id = i})
          = Len(ParsedRows(Contents[store.files[i].sha256]))

\* C14 as claimed: a committed IngestedFile row is there only together with all parsed
\* readings of its file, and a file row becomes committed only in the step that takes its
\* file, never by the commit of a later file's sensor creation, label back-fill or
\* association upsert, a file whose processing raised after the insert included
C14_FileAndReadingsOneUnit ==
    /\ [](WithItsReadings(disk))
    /\ [][\A i \in (Len(disk.files) + 1)..Len(disk'.files) :
             /\ IngestStep
             /\ disk'.files[i].sha256 = last'.sha256
             /\ last'.outcome \in {"ingested", "no_readings"}]_vars

-----------------------------------------------------------------------------
(* Properties of a batch under crashes *)

RECURSIVE IngestAll(_, _, _, _, _, _)
\* the file loop run over the files of a batch from file i on, without interruption
IngestAll(d, files, i, dir, r, dmeta) ==
    IF i > Len(files) THEN d
    ELSE IngestAll(IngestCsvFile(d, dir, NamePool[files[i][1]], Contents[files[i][2]],
                                 r.deployment_id, r.timezone_name, dmeta, r.fixed_offset).db,
                   files, i + 1, dir, r, dmeta)

\* the committed store after one uninterrupted run of the command on the batch, from the
\* empty store
Uninterrupted(argv, dir, files) ==
    LET dmeta == LoadDeploymentMetadata[dir]
        r == Resolve(ParseArgs(argv), dmeta)
        dep == GetOrCreateDeployment([conn |-> EmptyStore, disk |-> EmptyStore],
                                     r.deployment_name, r.site_name, r.timezone_name,
                                     r.deployment_notes)
    IN Close(IngestAll(dep.db, files, 1, dir, r @@ [deployment_id |-> dep.deployment_id],
                       dmeta)).disk

\* C15: when the command has run to completion on a batch, after any crashes of earlier
\* runs on it, the committed IngestedFile and Reading rows are those of one uninterrupted
\* run on the batch; no content has two file rows and no file's readings are there twice
C15_ResumeEqualsUninterrupted ==
    probe.fn = "batch" /\ probe.done =>
        /\ disk.files = Uninterrupted(probe.argv, probe.dir, probe.files).files
        /\ disk.temperature_readings
             = Uninterrupted(probe.argv, probe.dir, probe.files).temperature_readings
        /\ HashUnique(disk)
        /\ OneBatch(disk)

\* C15 happens: a run was killed after it had taken the first of two files, an earlier
\* or a later run was killed too, and the completed run left both files with readings
C15_Witness ==
    /\ probe.fn = "batch" /\ probe.done
    /\ probe.crashes = 2 /\ probe.crashed_at = 1
    /\ Len(disk.files) = 2
    /\ \A i \in 1..2 : \E j \in 1..Len(disk.temperature_readings) :
          disk.temperature_readings[j].file_id = i

\* the content passes the header parse and the sensor resolution, and its data block is
\* read to the end
Processed(rows) == ~NoBoundary(rows) /\ ~NoRegistration(rows) /\ ~ReadFails(rows)

\* C16 as claimed: when an invocation on a batch has ended normally, every file of the
\* batch that passed the header parse and the sensor resolution has exactly one committed
\* IngestedFile row for its content, at whatever place of the batch it stands and also
\* when its data block gave no valid reading
C16_EveryProcessedFileRecorded ==
    probe.fn = "batch" /\ probe.done /\ probe.crashes = 0 =>
        \A i \in 1..Len(probe.files) :
            Processed(Contents[probe.files[i][2]]) =>
                Cardinality({j \in 1..Len(disk.files) :
                                disk.files[j].sha256 = probe.files[i][2]}) = 1

\* C17 as claimed: the readings of a file ingested in timezone mode have the UTC instants
\* that the timezone name stored on the Deployment row of the file gives, also when the
\* row was there before the invocation and the invocation names another timezone
C17_ConvertedWithStoredTimezone ==
    pc = "ingesting" => ConvertedWith(conn.deployments[resolved.deployment_id].timezone_name)

=============================================================================
